---------------------------- MODULE Spec2Model ----------------------------
(***************************************************************************)
(* easyedit-v2 frontend: the session credentials (AuthContext.tsx), the    *)
(* api client with its refresh-on-401 interceptors (services/api.ts) and   *)
(* the job polling of the App component (App.tsx).                         *)
(*                                                                         *)
(* JavaScript runs one task at a time.  A task (a network response, a      *)
(* timer tick, a click) runs to completion, then the promise continuations *)
(* it queued (microtasks) run in FIFO order before the next task starts.   *)
(* The model keeps that queue (mq): every action that starts a task is     *)
(* enabled only when mq is empty.                                          *)
(***************************************************************************)
EXTENDS Integers, Sequences, FiniteSets

VARIABLES
    now,             \* the clock, new Date()
    lsTokens,        \* localStorage 'easyedit_tokens': {} or {record}
    lsUser,          \* localStorage 'easyedit_user': {} or {"u"}
    tokens,          \* AuthProvider state tokens: {} or {record}
    user,            \* AuthProvider state user: {} or {"u"}
    isLoading,       \* AuthProvider state isLoading
    error,           \* AuthProvider state error (TRUE: a message is set)
    login_pc,        \* where the async login() is: "idle", "token", "verify"
    newTokens,       \* login()'s local newTokens while it awaits /auth/verify
    refreshPromise,  \* api.ts module variable: 0 (null) or the promise's id
    promise,         \* the refresh promises, by the call that created them
    call,            \* the outbound calls made through the api client
    mq,              \* the microtask queue: calls whose await continuation is queued
    nextTok,         \* the next access token the auth service will issue
    refreshFailed,   \* history: a refresh attempt has failed and no login has
                     \* stored a credential since
    mounted,         \* the App component is mounted
    audioFile,       \* App state audioFile: {} (null) or {file}
    drtFile,         \* App state drtFile: {} (null) or {file}
    isUploading,     \* App state isUploading
    currentJob,      \* App state currentJob: {} (null) or {job}
    isPolling,       \* App state isPolling
    dirty,           \* currentJob was set and the polling effect has not yet re-run
    effect,          \* the job whose interval the mounted polling effect holds, 0 if none
    intervals,       \* the active setInterval timers, by the job they poll
    fetches,         \* the getJobStatus calls in flight: how many per job and answer
    upload_pc,       \* where handleUploadAndProcess is: "idle", "upload", "process"
    nextJob,         \* the next job_id the backend will give out
    srv,             \* the backend's status of each job
    finished,        \* per job: loadJobHistory() runs started from a polling tick
    polled,          \* per job: an interval has been created for it
    lastCleared,     \* the job whose interval the last effect cleanup cleared, 0 if none
    ticks,           \* the interval ticks that have fired
    pollError,       \* history: "caught" once a tick's fetch error was logged,
                     \* "retried" once a tick has fired after that
    jobHistory,      \* App state jobHistory: the jobs shown, a sequence
    loads,           \* the loadJobHistory calls awaiting GET /jobs
    loaded           \* history: the number of jobs in the response of the last
                     \* loadJobHistory that returned, -1 before the first

authVars == <<now, lsTokens, lsUser, tokens, user, isLoading, error, login_pc,
              newTokens, refreshPromise, promise, call, mq, nextTok, refreshFailed>>

pollVars == <<mounted, audioFile, drtFile, isUploading, currentJob, isPolling, dirty,
              effect, intervals, fetches, upload_pc, nextJob, srv,
              finished, polled, lastCleared, ticks, pollError>>

histVars == <<jobHistory, loads, loaded>>

vars == <<authVars, pollVars, histVars>>

-----------------------------------------------------------------------------
(* Bounds *)

MaxCalls == 2        \* outbound api calls made in one run
MaxTok == 2          \* access tokens the auth service issues in one run
MaxTime == 1         \* clock ticks in one run

Calls == 1..MaxCalls

MaxJobs == 2         \* jobs uploaded in one run
MaxTicks == 3        \* interval ticks in one run

Jobs == 1..MaxJobs

MaxInFlight == 2     \* status fetches in flight when the ticks are not counted
MaxDrop == 2         \* files in one drop
MaxResponse == 11    \* jobs in one GET /jobs response
MaxLoads == 2        \* loadJobHistory calls in flight

-----------------------------------------------------------------------------
(* Values *)

\* A missing JSON field (undefined): falsy in `!parsedTokens.refresh_token`.
Undefined == 0

\* expires_at as stored: an ISO date string, modelled by what new Date() makes
\* of it: a time in ms, an unparseable string, or no field at all.
At(t) == [kind |-> "ms", ms |-> t]
Unparseable == [kind |-> "invalid", ms |-> 0]
Missing == [kind |-> "absent", ms |-> 0]

\* new Date(s): Invalid Date (NaN) for undefined and for an unparseable string.
NewDate(e) == [nan |-> e.kind # "ms", ms |-> e.ms]

\* Date <= Date and Date > Date compare valueOf(); any comparison with NaN is false.
DateLeq(d, t) == ~d.nan /\ d.ms <= t
DateGt(d, t) == ~d.nan /\ d.ms > t

Parsed(item) == CHOOSE r \in item : TRUE

NoPromise == [st |-> "none", tok |-> 0, posts |-> 0, rt |-> 0, waiters |-> <<>>]
\* An outbound call: its axios config (_retry, the Authorization header hdr),
\* where it is (st), how often it went to the network (sends), the refresh
\* promise it awaits (p), and what its caller received (res).
NewCall == [st |-> "idle", retry |-> FALSE, sends |-> 0, hdr |-> 0,
            res |-> "none", p |-> 0]

\* A call that has returned to its caller: the config is garbage.
Returned(c, result) == [NewCall EXCEPT !.st = "done", !.sends = call[c].sends,
                                       !.res = result]

\* A request goes out with header h.  Nothing reads the Authorization header
\* of a request once it is on the wire (a re-issue sets it anew): the record
\* keeps it for the request that went out last.
Sent(c, h) ==
    [d \in Calls |->
        IF d = c THEN [call[c] EXCEPT !.st = "flight", !.sends = @ + 1, !.hdr = h, !.p = 0]
        ELSE [call[d] EXCEPT !.hdr = Undefined]]

\* A call returns to its caller.  The record of what a caller received is kept
\* for the call that returned last; an older one is spent.
SpentCall == [NewCall EXCEPT !.st = "done"]
Return(c, result) ==
    [d \in Calls |-> IF d = c THEN Returned(c, result)
                     ELSE IF call[d].st = "done" THEN SpentCall
                     ELSE call[d]]

\* What is left of a call or a promise of a page that has been reloaded.
GoneCall == [NewCall EXCEPT !.st = "gone"]
GonePromise == [NoPromise EXCEPT !.st = "gone"]

-----------------------------------------------------------------------------
(* services/api.ts *)

isTokenExpired_Lt(token) ==
    IF token.expires_at.kind = "absent" THEN TRUE
    ELSE LET d == NewDate(token.expires_at) IN ~d.nan /\ d.ms < now

isTokenExpired(token) ==
    IF token.expires_at.kind = "absent" THEN TRUE
    ELSE DateLeq(NewDate(token.expires_at), now)

getValidToken ==
    IF lsTokens = {} THEN Undefined
    ELSE LET parsedTokens == Parsed(lsTokens) IN
         IF parsedTokens.access_token = Undefined THEN Undefined
         ELSE IF isTokenExpired(parsedTokens) THEN Undefined
         ELSE parsedTokens.access_token

\* api.interceptors.request: the Authorization header a request leaves with,
\* given the one its config already carries.
RequestHeader_Stored(old) == getValidToken

RequestHeader(old) == IF getValidToken # Undefined THEN getValidToken ELSE old

\* performTokenRefresh() up to its first await: the promise it returns.
\* Without a stored record or without a refresh_token it returns null at once;
\* otherwise POST /auth/refresh is in flight.
performTokenRefresh ==
    IF lsTokens = {} THEN [NoPromise EXCEPT !.st = "null"]
    ELSE IF Parsed(lsTokens).refresh_token = Undefined
         THEN [NoPromise EXCEPT !.st = "null"]
         ELSE [NoPromise EXCEPT !.st = "pending", !.posts = 1,
                                !.rt = Parsed(lsTokens).refresh_token]

\* `if (!refreshPromise)`
NoRefreshPending_Always == TRUE

NoRefreshPending == refreshPromise = 0

\* `error.response?.status === 401 && !originalRequest._retry`
ShouldRefresh_IgnoreRetry(c, status) == status = "401"

ShouldRefresh_AnyError(c, status) == ~call[c].retry

ShouldRefresh(c, status) == status = "401" /\ ~call[c].retry

\* `if (newToken)`: what the awaited refresh promise gave.
HasNewToken_Always(out) == TRUE

HasNewToken(out) == out.st = "token"

\* `refreshResponse.data.refresh_token || parsedTokens.refresh_token`
RetainedRefreshToken_FromResponse(rt, old) == rt

RetainedRefreshToken(rt, old) == IF rt # Undefined THEN rt ELSE old

\* The catch block of performTokenRefresh on a stored record: removeItem.
AfterRefreshError_Keep(item) == item

AfterRefreshError(item) == {}

\* A new call through the api client: the request interceptor, then the network.
SendCall(c) ==
    /\ mq = <<>>
    /\ call[c].st = "idle"
    /\ \A d \in Calls : d < c => call[d].st # "idle"   \* numbered as they are made
    /\ call' = Sent(c, RequestHeader(Undefined))
    /\ UNCHANGED <<now, lsTokens, lsUser, tokens, user, isLoading, error, login_pc,
                   newTokens, refreshPromise, promise, mq, nextTok, refreshFailed, pollVars, histVars>>

\* What comes back for a call: a success, 401, another error status, or no
\* response at all (error.response is undefined).
Statuses == {"200", "401", "500", "network"}

\* The response interceptor, from the response's arrival to the first await.
Response(c, status) ==
    /\ mq = <<>>
    /\ call[c].st = "flight"
    /\ IF status = "200"
       THEN /\ call' = Return(c, "ok")
            /\ UNCHANGED <<refreshPromise, promise, mq>>
       ELSE IF ShouldRefresh(c, status)
       THEN LET created == NoRefreshPending
                p == IF created THEN c ELSE refreshPromise
                made == IF created THEN performTokenRefresh ELSE promise[p]
                pending == made.st = "pending"
            IN /\ refreshPromise' = p
               /\ promise' = [promise EXCEPT ![p] =
                     IF pending THEN [made EXCEPT !.waiters = Append(@, c)] ELSE made]
               /\ call' = [call EXCEPT ![c].retry = TRUE, ![c].p = p,
                                       ![c].st = IF pending THEN "await" ELSE "resume"]
               /\ mq' = IF pending THEN mq ELSE Append(mq, c)
       ELSE /\ call' = Return(c, IF status = "401" THEN "e401" ELSE status)
            /\ UNCHANGED <<refreshPromise, promise, mq>>
    /\ refreshFailed' = (refreshFailed \/ \E p \in Calls :
                            promise[p].st = "none" /\ promise'[p].st = "null")
    /\ UNCHANGED <<now, lsTokens, lsUser, tokens, user, isLoading, error, login_pc,
                   newTokens, nextTok, pollVars, histVars>>

\* POST /auth/refresh answers 200: the rest of performTokenRefresh's try block.
\* rt is the response's refresh_token (Undefined when it has none).
RefreshOk(p, rt, exp) ==
    /\ mq = <<>>
    /\ promise[p].st = "pending"
    /\ nextTok <= MaxTok
    /\ lsTokens' = {[access_token |-> nextTok,
                     refresh_token |-> RetainedRefreshToken(rt, promise[p].rt),
                     expires_at |-> exp]}
    /\ promise' = [promise EXCEPT ![p].st = "token", ![p].tok = nextTok,
                                  ![p].rt = 0, ![p].waiters = <<>>]
    /\ mq' = promise[p].waiters
    /\ call' = [c \in Calls |->
                  IF call[c].st = "await" /\ call[c].p = p
                  THEN [call[c] EXCEPT !.st = "resume"] ELSE call[c]]
    /\ nextTok' = nextTok + 1
    /\ UNCHANGED <<now, lsUser, tokens, user, isLoading, error, login_pc,
                   newTokens, refreshPromise, refreshFailed, pollVars, histVars>>

\* POST /auth/refresh fails (network error or the refresh token is rejected):
\* performTokenRefresh's catch block.
RefreshFail(p) ==
    /\ mq = <<>>
    /\ promise[p].st = "pending"
    /\ lsTokens' = AfterRefreshError(lsTokens)
    /\ lsUser' = AfterRefreshError(lsUser)
    /\ promise' = [promise EXCEPT ![p].st = "error", ![p].rt = 0, ![p].waiters = <<>>]
    /\ mq' = promise[p].waiters
    /\ call' = [c \in Calls |->
                  IF call[c].st = "await" /\ call[c].p = p
                  THEN [call[c] EXCEPT !.st = "resume"] ELSE call[c]]
    /\ refreshFailed' = TRUE
    /\ UNCHANGED <<now, tokens, user, isLoading, error, login_pc,
                   newTokens, refreshPromise, nextTok, pollVars, histVars>>

\* `refreshPromise = null; // Reset for next time`, by every awaiter as it
\* resumes, after a result as after a rejection.
AfterAwait_Keep(rp) == rp

AfterAwait(rp) == 0

\* The response interceptor after `await refreshPromise`, for the call at the
\* head of the microtask queue.
Resume ==
    /\ mq # <<>>
    /\ LET c == Head(mq)
           out == promise[call[c].p]
       IN /\ mq' = Tail(mq)
          /\ refreshPromise' = AfterAwait(refreshPromise)
          /\ IF HasNewToken(out)
             THEN \* newToken: the original request goes out again
                  call' = Sent(c, RequestHeader(out.tok))
             ELSE \* null or a rejection: window.location.reload(), then
                  \* Promise.reject(error) with the call's own 401
                  call' = Return(c, "e401")
          \* nothing refers to a settled promise once its last awaiter has resumed
          /\ promise' = IF \E i \in 2..Len(mq) : call[mq[i]].p = call[c].p THEN promise
                        ELSE [promise EXCEPT ![call[c].p].tok = 0]
    /\ UNCHANGED <<now, lsTokens, lsUser, tokens, user, isLoading, error, login_pc,
                   newTokens, nextTok, refreshFailed, pollVars, histVars>>

-----------------------------------------------------------------------------
(* contexts/AuthContext.tsx *)

isAuthenticated == tokens # {} /\ user # {}

\* JSON.parse of a stored item.  JSON.stringify(undefined) is undefined, which
\* setItem stores as the text "undefined": JSON.parse throws on it.
Parses(item) == item # {"undefined"}

\* `new Date(parsedTokens.expires_at) > new Date()`
NotExpiredOnLoad_Geq(t) ==
    LET d == NewDate(t.expires_at) IN ~d.nan /\ d.ms >= now

NotExpiredOnLoad(t) == DateGt(NewDate(t.expires_at), now)

\* login(): the click, up to the await of GET /auth/demo-token.
LoginStart ==
    /\ mq = <<>>
    /\ login_pc = "idle"
    /\ ~isAuthenticated /\ ~isLoading
    /\ nextTok <= MaxTok
    /\ isLoading' = TRUE
    /\ error' = FALSE
    /\ login_pc' = "token"
    /\ UNCHANGED <<now, lsTokens, lsUser, tokens, user, newTokens, refreshPromise,
                   promise, call, mq, nextTok, refreshFailed, pollVars, histVars>>

\* GET /auth/demo-token answers; rt is the response's refresh_token.
LoginTokenOk(rt, exp) ==
    /\ mq = <<>>
    /\ login_pc = "token"
    /\ newTokens' = {[access_token |-> nextTok, refresh_token |-> rt, expires_at |-> exp]}
    /\ nextTok' = nextTok + 1
    /\ login_pc' = "verify"
    /\ UNCHANGED <<now, lsTokens, lsUser, tokens, user, isLoading, error,
                   refreshPromise, promise, call, mq, refreshFailed, pollVars, histVars>>

\* GET /auth/verify answers with the user.
LoginVerifyOk ==
    /\ mq = <<>>
    /\ login_pc = "verify"
    /\ tokens' = newTokens
    /\ user' = {"u"}
    /\ lsTokens' = newTokens
    /\ lsUser' = {"u"}
    /\ isLoading' = FALSE
    /\ login_pc' = "idle"
    /\ newTokens' = {}
    /\ refreshFailed' = FALSE
    /\ UNCHANGED <<now, error, refreshPromise, promise, call, mq, nextTok, pollVars, histVars>>

\* login()'s catch block on the credential, in memory and persisted: it only
\* sets the error message.
AfterLoginError_KeepNew(item) == IF newTokens # {} THEN newTokens ELSE item

AfterLoginError(item) == item

\* Either request of login() fails: the catch and finally blocks.
LoginFail ==
    /\ mq = <<>>
    /\ login_pc \in {"token", "verify"}
    /\ error' = TRUE
    /\ isLoading' = FALSE
    /\ login_pc' = "idle"
    /\ newTokens' = {}
    /\ tokens' = AfterLoginError(tokens)
    /\ lsTokens' = AfterLoginError(lsTokens)
    /\ UNCHANGED <<now, lsUser, user, refreshPromise, promise,
                   call, mq, nextTok, refreshFailed, pollVars, histVars>>

\* logout(), from the Logout button AuthButton shows when authenticated.
Logout ==
    /\ mq = <<>>
    /\ isAuthenticated
    /\ tokens' = {}
    /\ user' = {}
    /\ error' = FALSE
    /\ lsTokens' = {}
    /\ lsUser' = {}
    /\ UNCHANGED <<now, isLoading, login_pc, newTokens, refreshPromise, promise,
                   call, mq, nextTok, refreshFailed, pollVars, histVars>>

\* The page is (re)loaded, by the user at any time or by the
\* window.location.reload() of the response interceptor: the script's state
\* (refreshPromise, the calls and promises of the old page, the provider's
\* state) starts over, and the AuthProvider mount effect restores the session
\* from localStorage.
PageLoad ==
    /\ mq = <<>>
    /\ LET both == lsTokens # {} /\ lsUser # {}
           live == both /\ Parses(lsUser) /\ NotExpiredOnLoad(Parsed(lsTokens))
       IN /\ tokens' = IF live THEN lsTokens ELSE {}
          /\ user' = IF live THEN lsUser ELSE {}
          /\ lsTokens' = IF both /\ ~live THEN {} ELSE lsTokens
          /\ lsUser' = IF both /\ ~live THEN {} ELSE lsUser
    /\ isLoading' = FALSE
    /\ error' = FALSE
    /\ login_pc' = "idle"
    /\ newTokens' = {}
    /\ refreshPromise' = 0
    /\ promise' = [p \in Calls |-> IF promise[p].st = "none" THEN NoPromise ELSE GonePromise]
    /\ call' = [c \in Calls |-> IF call[c].st = "idle" THEN NewCall ELSE GoneCall]
    /\ UNCHANGED <<now, mq, nextTok, refreshFailed, pollVars, histVars>>

\* Time passes.  The clock is only ever compared with the expires_at of the
\* stored record (and login()'s newTokens become one): a tick with no
\* unexpired credential around changes nothing the program can observe.
Tick ==
    /\ mq = <<>>
    /\ now < MaxTime
    /\ \E t \in lsTokens \cup newTokens : DateGt(NewDate(t.expires_at), now)
    /\ now' = now + 1
    /\ UNCHANGED <<lsTokens, lsUser, tokens, user, isLoading, error, login_pc,
                   newTokens, refreshPromise, promise, call, mq, nextTok, refreshFailed, pollVars, histVars>>

-----------------------------------------------------------------------------
(* App.tsx: upload and job polling *)

\* React runs a task's state updates, then re-renders, then (later, as a task
\* of its own) flushes the effects whose dependencies changed.  Every
\* setCurrentJob passes a new object, so the polling effect is due again
\* (dirty) after each of them; timers and responses may run before it is
\* flushed.

Terminal(status) == status \in {"completed", "failed"}
Polls(status) == status \in {"processing", "uploaded"}

Job(j, status) == [job_id |-> j, status |-> status]

\* `currentJob && (status === 'processing' || status === 'uploaded')`
ShouldPoll == currentJob # {} /\ Polls(Parsed(currentJob).status)

\* `audioFile && drtFile && !isUploading && !isPolling`
canStartProcessing == audioFile # {} /\ drtFile # {} /\ ~isUploading /\ ~isPolling

\* The effect's cleanup on the timers: `if (intervalId) clearInterval(intervalId)`.
\* The effect in place holds the timer created last.
Cleanup_KeepInterval(ivs) == ivs

Cleanup(ivs) == IF effect # 0 THEN SubSeq(ivs, 1, Len(ivs) - 1) ELSE ivs

\* Status fetches in flight: "none" until the backend has answered.
Answers == {"none", "uploaded", "processing", "completed", "failed"}
Fetches == Jobs \X Answers

\* finished counts 0, 1, more than once.
Bump(f, j) == [f EXCEPT ![j] = IF @ < 2 THEN @ + 1 ELSE @]

\* The polling effect is flushed: the previous effect's cleanup, then the
\* effect body with the currentJob of this render.
RunEffect ==
    /\ mounted /\ dirty
    /\ dirty' = FALSE
    /\ lastCleared' = effect
    /\ LET j == IF ShouldPoll THEN Parsed(currentJob).job_id ELSE 0
       IN /\ intervals' = IF j # 0 THEN Append(Cleanup(intervals), j) ELSE Cleanup(intervals)
          /\ effect' = j
          /\ isPolling' = (j # 0)
          /\ polled' = IF j # 0 THEN [polled EXCEPT ![j] = TRUE] ELSE polled
    /\ UNCHANGED <<mounted, audioFile, drtFile, isUploading, currentJob, fetches,
                   upload_pc, nextJob, srv, finished, ticks, pollError, authVars, histVars>>

\* The App is unmounted: the cleanup of the effect in place.
Unmount ==
    /\ mounted
    /\ mounted' = FALSE
    /\ dirty' = FALSE
    /\ lastCleared' = effect
    /\ intervals' = Cleanup(intervals)
    /\ effect' = 0
    /\ isPolling' = FALSE
    /\ UNCHANGED <<audioFile, drtFile, isUploading, currentJob, fetches, upload_pc,
                   nextJob, srv, finished, polled, ticks, pollError, authVars, histVars>>

\* An interval fires: the callback up to `await api.getJobStatus(job_id)`.
PollTick(i) ==
    /\ i \in 1..Len(intervals)
    /\ ticks < MaxTicks
    /\ ticks' = ticks + 1
    /\ pollError' = IF pollError = "caught" THEN "retried" ELSE pollError
    /\ fetches' = [fetches EXCEPT ![<<intervals[i], "none">>] = @ + 1]
    /\ UNCHANGED <<mounted, audioFile, drtFile, isUploading, currentJob, isPolling,
                   dirty, effect, intervals, upload_pc, nextJob, srv,
                   finished, polled, lastCleared, authVars, histVars>>

\* The status fetches in flight.
FetchesOf(j) ==
    fetches[<<j, "none">>] + fetches[<<j, "uploaded">>] + fetches[<<j, "processing">>]
        + fetches[<<j, "completed">>] + fetches[<<j, "failed">>]

RECURSIVE CountFetches(_)
CountFetches(n) == IF n = 0 THEN 0 ELSE FetchesOf(n) + CountFetches(n - 1)

InFlight == CountFetches(MaxJobs)

\* An interval fires, as PollTick, with no count of the ticks: the interval
\* goes on ticking for as long as it is active.
IntervalTick(i) ==
    /\ i \in 1..Len(intervals)
    /\ InFlight < MaxInFlight
    /\ pollError' = IF pollError = "caught" THEN "retried" ELSE pollError
    /\ fetches' = [fetches EXCEPT ![<<intervals[i], "none">>] = @ + 1]
    /\ UNCHANGED <<mounted, audioFile, drtFile, isUploading, currentJob, isPolling,
                   dirty, effect, intervals, upload_pc, nextJob, srv,
                   finished, polled, lastCleared, ticks, authVars, histVars>>

\* The backend goes uploaded -> processing -> completed or failed.  Its
\* progress shows only in the answers to GET /status/<job_id>, so the model
\* lets a job advance when a status request is answered: the answer is any
\* status the job can have reached by then.
Reached(status) ==
    IF status = "uploaded" THEN {"uploaded", "processing", "completed", "failed"}
    ELSE IF status = "processing" THEN {"processing", "completed", "failed"}
    ELSE {status}

ServeStatus(j, status) ==
    /\ fetches[<<j, "none">>] > 0
    /\ status \in Reached(srv[j])
    /\ srv' = [srv EXCEPT ![j] = status]
    /\ fetches' = [fetches EXCEPT ![<<j, "none">>] = @ - 1, ![<<j, status>>] = @ + 1]
    /\ UNCHANGED <<mounted, audioFile, drtFile, isUploading, currentJob, isPolling,
                   dirty, effect, intervals, upload_pc, nextJob,
                   finished, polled, lastCleared, ticks, pollError, authVars, histVars>>

\* A status response arrives: the rest of the interval callback's try block.
\* A state setter of an unmounted component does nothing.
FetchOk(j, status) ==
    /\ status # "none"
    /\ fetches[<<j, status>>] > 0
    /\ fetches' = [fetches EXCEPT ![<<j, status>>] = @ - 1]
    /\ currentJob' = IF mounted THEN {Job(j, status)} ELSE currentJob
    /\ dirty' = mounted
    /\ isPolling' = IF Terminal(status) THEN FALSE ELSE isPolling
    /\ finished' = IF Terminal(status) THEN Bump(finished, j) ELSE finished
    /\ UNCHANGED <<mounted, audioFile, drtFile, isUploading, effect, intervals,
                   upload_pc, nextJob, srv, polled, lastCleared, ticks, pollError, authVars, histVars>>

\* The catch block of the interval callback on the timers: it only logs.
AfterPollError_Stop(ivs) == <<>>

AfterPollError(ivs) == ivs

\* A status fetch rejects: the catch block logs it.
FetchFail(j, answer) ==
    /\ fetches[<<j, answer>>] > 0
    /\ fetches' = [fetches EXCEPT ![<<j, answer>>] = @ - 1]
    /\ intervals' = AfterPollError(intervals)
    /\ pollError' = IF pollError = "none" THEN "caught" ELSE pollError
    /\ UNCHANGED <<mounted, audioFile, drtFile, isUploading, currentJob, isPolling,
                   dirty, effect, upload_pc, nextJob, srv,
                   finished, polled, lastCleared, ticks, authVars, histVars>>

\* A File, by its name.  A name is the sequence of its "." characters and of
\* the runs of other characters between them.
File(name) == [name |-> name]

FileNames ==
    { <<"song", ".", "wav">>, <<"mix", ".", "old", ".", "FLAC">>, <<"wav">>,
      <<"cut", ".", "drt">>, <<"cut", ".", "XML">>, <<"notes", ".", "txt">> }

\* String.prototype.split('.'): the pieces between the dots, "" where there
\* is none.
RECURSIVE SplitFrom(_, _)
SplitFrom(name, parts) ==
    IF name = <<>> THEN parts
    ELSE IF Head(name) = "." THEN SplitFrom(Tail(name), Append(parts, ""))
    ELSE SplitFrom(Tail(name), [parts EXCEPT ![Len(parts)] = Head(name)])

Split(name) == SplitFrom(name, <<"">>)

toLowerCase(s) ==
    CASE s = "FLAC" -> "flac"
      [] s = "XML" -> "xml"
      [] OTHER -> s

\* `file.name.split('.').pop()?.toLowerCase()`
Extension(file) == LET parts == Split(file.name) IN toLowerCase(parts[Len(parts)])

AudioExtensions == {"wav", "mp3", "m4a", "aac", "flac"}
DrtExtensions == {"drt", "xml"}

\* One round of the forEach in onDrop, on the pair <<newAudioFile, newDrtFile>>.
Classify_AudioFirstWins(sel, file) ==
    IF Extension(file) \in AudioExtensions
    THEN <<IF sel[1] = {} THEN {file} ELSE sel[1], sel[2]>>
    ELSE IF Extension(file) \in DrtExtensions THEN <<sel[1], {file}>>
    ELSE sel

Classify(sel, file) ==
    IF Extension(file) \in AudioExtensions THEN <<{file}, sel[2]>>
    ELSE IF Extension(file) \in DrtExtensions THEN <<sel[1], {file}>>
    ELSE sel

\* onDrop's forEach over acceptedFiles, starting from the props.
RECURSIVE forEach(_, _)
forEach(acceptedFiles, sel) ==
    IF acceptedFiles = <<>> THEN sel
    ELSE forEach(Tail(acceptedFiles), Classify(sel, Head(acceptedFiles)))

\* The drops: up to MaxDrop files.
Drops == UNION {[1..n -> {File(name) : name \in FileNames}] : n \in 0..MaxDrop}

\* handleFilesSelected, from the FileDropzone.
SelectFiles(audio, drt) ==
    /\ mounted /\ ~isUploading
    /\ audioFile' = audio
    /\ drtFile' = drt
    /\ UNCHANGED <<mounted, isUploading, currentJob, isPolling, dirty, effect,
                   intervals, fetches, upload_pc, nextJob, srv, finished,
                   polled, lastCleared, ticks, pollError, authVars, histVars>>

\* onDrop, from the dropzone (disabled while isUploading).
OnDrop(acceptedFiles) ==
    LET sel == forEach(acceptedFiles, <<audioFile, drtFile>>)
    IN SelectFiles(sel[1], sel[2])

\* removeFile, from the Remove button of a selected file.
RemoveFile(type) ==
    IF type = "audio"
    THEN audioFile # {} /\ SelectFiles({}, drtFile)
    ELSE drtFile # {} /\ SelectFiles(audioFile, {})

\* `if (!audioFile || !drtFile) return;`
HasBothFiles_Either == audioFile # {} \/ drtFile # {}

HasBothFiles == audioFile # {} /\ drtFile # {}

\* handleUploadAndProcess, up to `await api.uploadFiles`.
handleUploadAndProcess ==
    /\ mounted
    /\ upload_pc = "idle"
    /\ nextJob <= MaxJobs
    /\ IF HasBothFiles
       THEN /\ isUploading' = TRUE
            /\ upload_pc' = "upload"
            /\ UNCHANGED <<mounted, audioFile, drtFile, currentJob, isPolling, dirty,
                           effect, intervals, fetches, nextJob, srv, finished,
                           polled, lastCleared, ticks, pollError, authVars, histVars>>
       ELSE UNCHANGED vars

\* The process button, disabled unless canStartProcessing.
UploadStart == canStartProcessing /\ handleUploadAndProcess

\* POST /upload answers with a new job_id: setCurrentJob(initialJob), then
\* POST /process/<job_id> goes out.
UploadOk ==
    /\ upload_pc = "upload"
    /\ upload_pc' = "process"
    /\ nextJob' = nextJob + 1
    /\ srv' = [srv EXCEPT ![nextJob] = "uploaded"]
    /\ currentJob' = IF mounted THEN {Job(nextJob, "uploaded")} ELSE currentJob
    /\ dirty' = mounted
    /\ UNCHANGED <<mounted, audioFile, drtFile, isUploading, isPolling, effect,
                   intervals, fetches, finished, polled, lastCleared, ticks, pollError, authVars, histVars>>

\* POST /process answers: the files are cleared; finally isUploading is reset.
ProcessOk ==
    /\ upload_pc = "process"
    /\ upload_pc' = "idle"
    /\ audioFile' = IF mounted THEN {} ELSE audioFile
    /\ drtFile' = IF mounted THEN {} ELSE drtFile
    /\ isUploading' = IF mounted THEN FALSE ELSE isUploading
    /\ UNCHANGED <<mounted, currentJob, isPolling, dirty, effect, intervals, fetches,
                   nextJob, srv, finished, polled, lastCleared, ticks, pollError, authVars, histVars>>

\* The upload or the process request fails: the catch block alerts; finally
\* isUploading is reset.
UploadFail ==
    /\ upload_pc \in {"upload", "process"}
    /\ upload_pc' = "idle"
    /\ isUploading' = IF mounted THEN FALSE ELSE isUploading
    /\ UNCHANGED <<mounted, audioFile, drtFile, currentJob, isPolling, dirty, effect,
                   intervals, fetches, nextJob, srv, finished, polled,
                   lastCleared, ticks, pollError, authVars, histVars>>

\* `response.jobs.slice(0, 10)`: the history shows at most this many jobs.
HistoryLimit == 10

\* Array.prototype.slice(start, end) for 0 <= start <= end: the elements at the
\* 0-based positions start .. end - 1 that the array has.
Slice_All(s, start, end) == s

Slice(s, start, end) == SubSeq(s, start + 1, IF end < Len(s) THEN end ELSE Len(s))

\* What GET /jobs may answer: up to MaxResponse jobs, by job_id, newest or
\* oldest first.
Responses ==
    {[i \in 1..n |-> k + i] : n \in 0..MaxResponse, k \in 0..2}
        \cup {[i \in 1..n |-> n + 1 - i] : n \in 0..MaxResponse}

\* loadJobHistory is called (on authentication, or from a polling tick that
\* saw a terminal status), up to `await api.getAllJobs()`.
loadJobHistory ==
    /\ mounted
    /\ loads < MaxLoads
    /\ loads' = loads + 1
    /\ UNCHANGED <<jobHistory, loaded, authVars, pollVars>>

\* GET /jobs answers: `setJobHistory(response.jobs.slice(0, 10))`.
LoadOk(jobs) ==
    /\ loads > 0
    /\ loads' = loads - 1
    /\ jobHistory' = IF mounted THEN Slice(jobs, 0, HistoryLimit) ELSE jobHistory
    /\ loaded' = Len(jobs)
    /\ UNCHANGED <<authVars, pollVars>>

\* GET /jobs fails, or its answer has no jobs array: the catch block logs it.
LoadFail ==
    /\ loads > 0
    /\ loads' = loads - 1
    /\ UNCHANGED <<jobHistory, loaded, authVars, pollVars>>

\* No file is selected.
InitFiles ==
    /\ audioFile = {}
    /\ drtFile = {}

\* The user has dropped an audio file and a timeline file.
FilesDropped ==
    /\ audioFile = {File(<<"song", ".", "wav">>)}
    /\ drtFile = {File(<<"cut", ".", "drt">>)}

InitJobs ==
    /\ mounted = TRUE
    /\ isUploading = FALSE
    /\ currentJob = {}
    /\ isPolling = FALSE
    /\ dirty = FALSE
    /\ effect = 0
    /\ intervals = <<>>
    /\ fetches = [f \in Fetches |-> 0]
    /\ upload_pc = "idle"
    /\ nextJob = 1
    /\ srv = [j \in Jobs |-> "none"]
    /\ finished = [j \in Jobs |-> 0]
    /\ polled = [j \in Jobs |-> FALSE]
    /\ lastCleared = 0
    /\ ticks = 0
    /\ pollError = "none"
    /\ jobHistory = <<>>
    /\ loads = 0
    /\ loaded = -1

InitApp == InitFiles /\ InitJobs

-----------------------------------------------------------------------------
(* Specifications *)

InitSession ==
    /\ now = 0
    /\ lsTokens = {}
    /\ lsUser = {}
    /\ tokens = {}
    /\ user = {}
    /\ isLoading = FALSE
    /\ error = FALSE
    /\ login_pc = "idle"
    /\ newTokens = {}
    /\ refreshPromise = 0
    /\ promise = [p \in Calls |-> NoPromise]
    /\ call = [c \in Calls |-> NewCall]
    /\ mq = <<>>
    /\ nextTok = 1
    /\ refreshFailed = FALSE

Init == InitSession /\ InitApp

\* What the auth service may answer: a refresh_token or none, an expiry that
\* has just passed or lies one tick ahead.
Expiries == {At(now), At(now + 1)}

NextAuth ==
    \/ \E c \in Calls : SendCall(c)
    \/ \E c \in Calls, status \in Statuses : Response(c, status)
    \/ \E p \in Calls, rt \in {Undefined, nextTok}, exp \in Expiries : RefreshOk(p, rt, exp)
    \/ \E p \in Calls : RefreshFail(p)
    \/ Resume
    \/ LoginStart
    \/ \E rt \in {Undefined, nextTok}, exp \in Expiries : LoginTokenOk(rt, exp)
    \/ LoginVerifyOk
    \/ LoginFail
    \/ Logout
    \/ PageLoad
    \/ Tick

\* The session and the api client.
SpecAuth == Init /\ [][NextAuth]_vars

\* What localStorage may hold when the page is loaded.
StoredExpiries == {At(t) : t \in 0..(MaxTime + 1)} \cup {Unparseable, Missing}
StoredTokens ==
    {{}} \cup {{[access_token |-> a, refresh_token |-> r, expires_at |-> e]} :
                a \in {Undefined} \cup 1..MaxTok, r \in {Undefined} \cup 1..MaxTok,
                e \in StoredExpiries}
StoredUsers == {{}, {"u"}, {"undefined"}}

InitLoad ==
    /\ InitApp
    /\ now = 0
    /\ lsTokens \in StoredTokens
    /\ lsUser \in StoredUsers
    /\ tokens = {}
    /\ user = {}
    /\ isLoading = TRUE
    /\ error = FALSE
    /\ login_pc = "idle"
    /\ newTokens = {}
    /\ refreshPromise = 0
    /\ promise = [p \in Calls |-> NoPromise]
    /\ call = [c \in Calls |-> NewCall]
    /\ mq = <<>>
    /\ nextTok = 1
    /\ refreshFailed = FALSE

NextLoad ==
    \/ PageLoad
    \/ Tick
    \/ \E c \in Calls : SendCall(c)

\* The AuthProvider mounting, and the api client sending requests, over what
\* localStorage holds.
SpecLoad == InitLoad /\ [][NextLoad]_vars

NextPoll ==
    \/ RunEffect
    \/ Unmount
    \/ \E i \in 1..MaxJobs : PollTick(i)
    \/ \E j \in Jobs, status \in Answers : ServeStatus(j, status)
    \/ \E j \in Jobs, status \in Answers : FetchOk(j, status)
    \/ \E j \in Jobs, answer \in Answers : FetchFail(j, answer)
    \/ SelectFiles({File(<<"song", ".", "wav">>)}, {File(<<"cut", ".", "drt">>)})
    \/ UploadStart
    \/ UploadOk
    \/ ProcessOk
    \/ UploadFail

\* The App: upload and job polling.
SpecPoll == Init /\ [][NextPoll]_vars

\* One upload, of the files dropped before, and the polling of its job.
InitTicking == InitSession /\ FilesDropped /\ InitJobs

NextTicking ==
    \/ RunEffect
    \/ Unmount
    \/ \E i \in 1..MaxJobs : IntervalTick(i)
    \/ \E j \in Jobs, status \in Answers : ServeStatus(j, status)
    \/ \E j \in Jobs, status \in Answers : FetchOk(j, status)
    \/ \E j \in Jobs, answer \in Answers : FetchFail(j, answer)
    \/ UploadStart
    \/ UploadOk
    \/ ProcessOk

\* React flushes a pending effect; an active interval keeps ticking; the
\* backend answers status requests and answers get back, though any one
\* fetch may fail.  (One job is uploaded here, so the fetches are its own.)
Fairness ==
    /\ WF_vars(RunEffect)
    /\ WF_vars(\E i \in 1..MaxJobs : IntervalTick(i))
    /\ SF_vars(\E j \in Jobs, status \in Answers : ServeStatus(j, status))
    /\ SF_vars(\E j \in Jobs, status \in Answers : FetchOk(j, status))

\* The App with its interval ticking on, under fair scheduling.
SpecTicking == InitTicking /\ [][NextTicking]_vars /\ Fairness

NextHistory ==
    \/ loadJobHistory
    \/ \E jobs \in Responses : LoadOk(jobs)
    \/ LoadFail

\* The App: the job history.
SpecHistory == Init /\ [][NextHistory]_vars

NextFiles ==
    \/ Unmount
    \/ \E acceptedFiles \in Drops : OnDrop(acceptedFiles)
    \/ \E type \in {"audio", "drt"} : RemoveFile(type)
    \/ handleUploadAndProcess
    \/ UploadOk
    \/ ProcessOk
    \/ UploadFail

\* The App: the file selection and the upload handler.
SpecFiles == Init /\ [][NextFiles]_vars

-----------------------------------------------------------------------------
(* Claims about the api client and the session *)

Pending == {p \in Calls : promise[p].st = "pending"}
Awaiting == {c \in Calls : call[c].st = "await"}
Resuming == {c \in Calls : call[c].st = "resume"}
Settled(p) == promise[p].st \in {"token", "null", "error"}

\* The calls that await one refresh share one promise, whose single POST is in
\* flight; the calls that resume all resume from one settled promise.
C1_Shared ==
    /\ \A c \in Awaiting :
          /\ call[c].p \in Pending
          /\ \A d \in Awaiting : call[d].p = call[c].p
    /\ \A c \in Resuming :
          /\ Settled(call[c].p)
          /\ \A d \in Resuming : call[d].p = call[c].p
    /\ \A p \in Calls :
          /\ promise[p].st \in {"pending", "token", "error"} => promise[p].posts = 1
          /\ promise[p].st = "null" => promise[p].posts = 0

\* A step that creates a refresh promise sends its one POST iff a record with
\* a refresh_token is stored.
C1_Created ==
    \A p \in Calls :
        promise[p].st = "none" /\ promise'[p].st \notin {"none", "gone"} =>
            promise'[p].posts =
                IF lsTokens # {} /\ Parsed(lsTokens).refresh_token # Undefined
                THEN 1 ELSE 0

\* A resuming call gets the outcome of the promise it awaited: it leaves again
\* with that promise's token, or returns its 401.
C1_Outcome ==
    mq # <<>> =>
        LET c == Head(mq)
            out == promise[call[c].p]
        IN IF out.st = "token"
           THEN call'[c].st = "flight" /\ call'[c].hdr = out.tok /\ out.tok # 0
           ELSE call'[c].st = "done" /\ call'[c].res = "e401"

C2_OneRefreshInFlight == Cardinality(Pending) <= 1

\* A refresh is in flight and a second call has joined it.
C2_Witness == \E p \in Pending : Len(promise[p].waiters) = 2

C3_Bound ==
    \A c \in Calls :
        /\ call[c].sends <= 2
        /\ call[c].st = "flight" /\ call[c].sends = 2 => call[c].retry

C3_Step ==
    \A c \in Calls :
        \* a call goes out again only from a successful refresh, and then once
        /\ call'[c].sends > call[c].sends /\ call[c].sends >= 1 =>
              /\ call[c].st = "resume"
              /\ promise[call[c].p].st = "token"
              /\ call'[c].sends = 2
        /\ call[c].st = "resume" /\ promise[call[c].p].st = "token"
              /\ call'[c].st # "resume" =>
              call'[c].st = "flight" /\ call'[c].sends = 2
        \* the answer to a call marked _retry goes to the caller as it is
        /\ call[c].st = "flight" /\ call[c].retry /\ call'[c].st \notin {"flight", "gone"} =>
              /\ call'[c].st = "done"
              /\ call'[c].sends = call[c].sends
              /\ promise' = promise
              /\ refreshPromise' = refreshPromise

\* C3: a call whose first response is 401 is re-issued exactly once when the
\* refresh succeeds; a re-issued call that gets 401 again is not re-issued,
\* starts no refresh and returns its error; no call is sent more than twice.
C3_RetryOnce == []C3_Bound /\ [][C3_Step]_vars

\* A re-issued call got 401 again and returned it.
C3_Witness == \E c \in Calls : call[c].st = "done" /\ call[c].sends = 2 /\ call[c].res = "e401"

RefreshAttemptFails ==
    \E p \in Calls : promise[p].st \in {"none", "pending"} /\ promise'[p].st \in {"null", "error"}

\* C4: after logout() and after any refresh attempt that fails (network error,
\* refresh token rejected, no refresh token stored) both persisted records are
\* absent.
C4_AtomicClear ==
    [][Logout \/ RefreshAttemptFails => lsTokens' = {} /\ lsUser' = {}]_vars

\* C5: in every reachable state the persisted credential record and the
\* persisted identity record are both present or both absent.
C5_PairInvariant == (lsTokens = {}) <=> (lsUser = {})

ExpiresAfterNow == lsTokens # {} /\ Parsed(lsTokens).expires_at.ms > now

\* C6: a stored credential is treated as valid iff expiresAt > now, by the
\* request hook of the api client (the stored access token is attached iff so)
\* and by the session restore on load (the session is restored iff so, and
\* discarded otherwise).
C6_ExpiryBoundary ==
    [][/\ \A c \in Calls : call[c].st = "idle" /\ call'[c].st = "flight" =>
              call'[c].hdr = IF ExpiresAfterNow THEN Parsed(lsTokens).access_token
                             ELSE Undefined
       /\ PageLoad /\ lsTokens # {} /\ lsUser # {} =>
              /\ tokens' = IF ExpiresAfterNow THEN lsTokens ELSE {}
              /\ lsTokens' = IF ExpiresAfterNow THEN lsTokens ELSE {}]_vars

\* A call left without a token while the stored credential expires exactly now.
C6_Witness ==
    \E c \in Calls :
        /\ call[c].st = "flight" /\ call[c].sends = 1 /\ call[c].hdr = Undefined
        /\ \A d \in Calls : d # c => call[d].st = "idle"
        /\ lsTokens # {} /\ Parsed(lsTokens).expires_at.ms = now

-----------------------------------------------------------------------------
(* Claims about the App's job polling *)

\* C7: once a status fetch for a job has returned 'completed' or 'failed', no
\* further status fetch is started for that job.
C7_PollingTermination ==
    [][\A j \in Jobs :
          finished[j] > 0 => fetches'[<<j, "none">>] <= fetches[<<j, "none">>]]_vars

\* The timers are the one of the effect in place, if it set one up.
C8_AtMostOne ==
    /\ Len(intervals) <= 1
    /\ intervals = IF effect # 0 THEN <<effect>> ELSE <<>>

\* Once the effects of a render are flushed, the effect in place is the one of
\* the observed job, if that job is to be polled.
C8_ForObserved ==
    mounted /\ ~dirty =>
        effect = IF ShouldPoll THEN Parsed(currentJob).job_id ELSE 0

\* C8: at every moment at most one polling interval is active; when the
\* observed job changes the previous interval is cleared before a new one is
\* created, so that polling job B after job A leaves one interval, for B, and
\* none for A.
C8_NoIntervalStacking == C8_AtMostOne /\ C8_ForObserved

\* Job 2 is polled, by an effect whose flush cleared the interval of job 1.
C8_Witness == intervals = <<2>> /\ lastCleared = 1

\* C9: the job-finished action (loadJobHistory from the polling callback) runs
\* at most once for a job, whatever status fetches are in flight when the
\* first terminal response arrives.
C9_FinishedOnce == \A j \in Jobs : finished[j] <= 1

\* C10: after the polling of a later job has begun, currentJob never holds the
\* data of an earlier job again.
C10_NoStaleJob ==
    \A j1, j2 \in Jobs :
        j1 < j2 /\ polled[j2] => currentJob = {} \/ Parsed(currentJob).job_id # j1

-----------------------------------------------------------------------------
(* More claims about the api client and the session *)

\* C11: when a call gets 401, the refresh succeeds and the re-issued call
\* succeeds, the re-issued request carries the access token that refresh
\* returned, and the caller receives the re-issued call's response: one
\* successful result, which is final, and no error.
C11_TransparentRetry ==
    [][\A c \in Calls :
          /\ call[c].st = "resume" /\ promise[call[c].p].st = "token"
                /\ call'[c].st = "flight" =>
                /\ call'[c].hdr = promise[call[c].p].tok
                /\ call'[c].hdr # Undefined
          /\ Response(c, "200") /\ call[c].sends = 2 =>
                /\ call'[c].st = "done"
                /\ call'[c].res = "ok"
                /\ call'[c].sends = 2
          /\ call[c].st = "done" /\ call'[c].st # "gone" =>
                call'[c].st = "done" /\ call'[c].res \in {call[c].res, "none"}]_vars

\* A call has returned the response of its second sending.
C11_Witness == \E c \in Calls : call[c].st = "done" /\ call[c].sends = 2 /\ call[c].res = "ok"

\* C12: after a refresh failure has cleared the session, a call made while no
\* credential is stored is rejected without a network request.
C12_RejectedWithoutRequest ==
    [][\A c \in Calls :
          (\E p \in Calls : promise[p].st = "error")
             /\ lsTokens = {} /\ call[c].st = "idle" /\ call'[c].st # "idle" =>
              call'[c].st = "done" /\ call'[c].sends = 0]_vars

\* C16: after a refresh attempt has failed, no POST /auth/refresh is issued,
\* by a later 401 or by an awaiter of the failed refresh, until a login has
\* stored a new credential.
C16_FailedRefreshTerminal ==
    [][refreshFailed =>
          \A p \in Calls :
              /\ promise'[p].st = "pending" => promise[p].st = "pending"
              /\ promise'[p].posts <= promise[p].posts]_vars

\* After a failed refresh a later 401 was handled, and started no POST.
C16_Witness ==
    /\ refreshFailed
    /\ \E p, q \in Calls : promise[p].st = "error" /\ promise[q].st = "null"

\* C17: when a call gets 401 and the shared refresh rejects or yields no
\* token, the call is not sent again and its caller receives the call's own
\* 401 error.
C17_FailedRefreshReturns401 ==
    [][\A c \in Calls :
          call[c].st = "resume" /\ promise[call[c].p].st \in {"null", "error"}
             /\ call'[c] # call[c] =>
              /\ call'[c].st = "done"
              /\ call'[c].res = "e401"
              /\ call'[c].sends = 1 /\ call[c].sends = 1]_vars

\* The refresh was rejected and a call that awaited it, sent once, has
\* returned its 401.
C17_Witness ==
    /\ \E p \in Calls : promise[p].st = "error"
    /\ \E c \in Calls : call[c].st = "done" /\ call[c].res = "e401" /\ call[c].sends = 1

\* C18: a call made while a credential is stored leaves with the stored access
\* token as its bearer, whatever the credential's expiry, and the request hook
\* starts no refresh.
C18_AttachesStoredToken ==
    [][\A c \in Calls :
          call[c].st = "idle" /\ call'[c].st = "flight" /\ lsTokens # {} =>
              /\ call'[c].hdr = Parsed(lsTokens).access_token
              /\ refreshPromise' = refreshPromise
              /\ promise' = promise]_vars

\* C19: a response error other than 401 goes to the caller as it is; the call
\* is not sent again, no refresh starts, and the persisted records stay.
C19_PassThrough ==
    [][\A c \in Calls, status \in {"500", "network"} :
          Response(c, status) =>
              /\ call'[c].st = "done"
              /\ call'[c].res = status
              /\ call'[c].sends = call[c].sends
              /\ UNCHANGED <<refreshPromise, promise, mq, lsTokens, lsUser>>]_vars

\* A call has returned a network failure while a credential is stored.
C19_Witness ==
    /\ lsTokens # {}
    /\ \E c \in Calls : call[c].st = "done" /\ call[c].res = "network"

\* C20: a successful refresh stores {access_token and expires_at of the
\* response, the response's refresh_token if it has one, otherwise the refresh
\* token that was stored when the refresh started}, leaves the identity record
\* as it is, and returns the new access token.
C20_RefreshResult ==
    [][\A p \in Calls :
          /\ promise[p].st = "pending" /\ promise'[p].st = "token" =>
                /\ lsTokens' # {}
                /\ promise'[p].tok # Undefined
                /\ Parsed(lsTokens').access_token = promise'[p].tok
                /\ lsUser' = lsUser
          /\ \A rt \in {Undefined, nextTok}, exp \in Expiries :
                RefreshOk(p, rt, exp) =>
                    /\ Parsed(lsTokens').access_token = nextTok
                    /\ Parsed(lsTokens').expires_at = exp
                    /\ Parsed(lsTokens').refresh_token =
                           IF rt # Undefined THEN rt ELSE promise[p].rt]_vars

\* A refresh whose response had no refresh_token has kept the one of the login.
C20_Witness ==
    /\ lsTokens # {}
    /\ Parsed(lsTokens).access_token = 2 /\ Parsed(lsTokens).refresh_token = 1
    /\ \E p \in Calls : promise[p].st = "token" /\ promise[p].tok = 2

\* The stored credential's expires_at is a time strictly later than now.
StoredLater ==
    /\ lsTokens # {}
    /\ Parsed(lsTokens).expires_at.kind = "ms"
    /\ Parsed(lsTokens).expires_at.ms > now

\* C15: on provider mount a persisted session is restored into memory only if
\* both records are present, both parse and the credential's expiresAt is
\* strictly later than now; if the expiry has passed, the in-memory session
\* stays unauthenticated and both persisted records are removed.
C15_FailClosedRestore ==
    [][PageLoad =>
          /\ tokens' # {} \/ user' # {} =>
                /\ lsTokens # {} /\ lsUser = {"u"}
                /\ StoredLater
                /\ tokens' = lsTokens /\ user' = lsUser
          /\ lsTokens # {} /\ lsUser # {} /\ Parsed(lsTokens).expires_at.kind = "ms"
                /\ Parsed(lsTokens).expires_at.ms <= now =>
                /\ tokens' = {} /\ user' = {}
                /\ lsTokens' = {} /\ lsUser' = {}]_vars

\* The mount effect has restored a session that expires one tick from now.
C15_Witness ==
    /\ ~isLoading
    /\ tokens # {} /\ user # {}
    /\ tokens = lsTokens
    /\ Parsed(tokens).expires_at = At(now + 1)

-----------------------------------------------------------------------------
(* More claims about the App's job polling *)

C14_StopOnTeardown ==
    [][/\ Unmount => intervals' = <<>> /\ ~isPolling'
       /\ RunEffect /\ effect # 0 =>
             \/ intervals' = <<>> /\ effect' = 0
             \/ intervals' = <<effect'>> /\ effect' = Parsed(currentJob).job_id
       /\ \A i \in 1..MaxJobs :
             PollTick(i) => mounted /\ effect # 0 /\ intervals = <<effect>>
       /\ ~mounted => ticks' = ticks
       /\ Unmount /\ effect = 0 =>
             /\ intervals' = intervals
             /\ ~isPolling'
             /\ UNCHANGED <<currentJob, fetches, audioFile, drtFile, isUploading,
                            finished, srv>>
       /\ RunEffect /\ effect = 0 /\ ~ShouldPoll =>
             /\ intervals' = intervals
             /\ ~isPolling'
             /\ UNCHANGED <<currentJob, fetches, audioFile, drtFile, isUploading,
                            finished, srv>>]_vars

\* The App was unmounted while it polled, with its interval about to tick again.
C14_Witness ==
    /\ ~mounted
    /\ lastCleared # 0
    /\ intervals = <<>>
    /\ ticks > 0 /\ ticks < MaxTicks

-----------------------------------------------------------------------------
(* Further claims about the App *)

\* C21: once the observed job has status 'completed' or 'failed', no later
\* polling result sets the status of that job back to 'uploaded' or
\* 'processing', in whatever order the responses of overlapping status
\* fetches arrive.
C21_TerminalAbsorbing ==
    [][\A j \in Jobs :
          currentJob # {} /\ Parsed(currentJob).job_id = j
              /\ Terminal(Parsed(currentJob).status)
          => ~(currentJob' # {} /\ Parsed(currentJob').job_id = j
                  /\ Polls(Parsed(currentJob').status))]_vars

\* The first min(limit, n) jobs of an n-job response, in response order.
FirstJobs(jobs, h) ==
    /\ Len(h) = (IF Len(jobs) < HistoryLimit THEN Len(jobs) ELSE HistoryLimit)
    /\ \A i \in 1..Len(h) : h[i] = jobs[i]

C23_UploadGating ==
    [][/\ upload_pc' # upload_pc /\ upload_pc' \in {"upload", "process"} =>
             audioFile # {} /\ drtFile # {}
       /\ handleUploadAndProcess /\ (audioFile = {} \/ drtFile = {}) =>
             UNCHANGED vars]_vars

\* A first job went through upload and process, and now only an audio file is
\* selected: the handler called here sends nothing.
C23_Witness ==
    /\ nextJob > 1
    /\ upload_pc = "idle" /\ ~isUploading
    /\ audioFile # {} /\ drtFile = {}
    /\ ENABLED handleUploadAndProcess

\* The file of a sequence that onDrop keeps for a kind: the last one with an
\* extension of that kind, the file selected before if there is none.
LastOf(acceptedFiles, extensions, previous) ==
    LET at == {i \in 1..Len(acceptedFiles) : Extension(acceptedFiles[i]) \in extensions}
    IN IF at = {} THEN previous
       ELSE {acceptedFiles[CHOOSE i \in at : \A k \in at : k <= i]}

\* C24: after a drop of a sequence of files, the selected audio file is the
\* last file of the sequence whose extension is wav, mp3, m4a, aac or flac, or
\* the audio file selected before if there is none; the selected timeline file
\* is the last one whose extension is drt or xml, or the one selected before;
\* files with any other extension change neither.
C24_DropClassification ==
    [][\A acceptedFiles \in Drops :
          OnDrop(acceptedFiles) =>
              /\ audioFile' = LastOf(acceptedFiles, {"wav", "mp3", "m4a", "aac", "flac"},
                                     audioFile)
              /\ drtFile' = LastOf(acceptedFiles, {"drt", "xml"}, drtFile)]_vars

\* An audio file and a timeline file were dropped, both with upper-case
\* extensions, and a drop of two audio files can follow: its second file will
\* be selected and the timeline file kept.
C24_Witness ==
    /\ audioFile = {File(<<"mix", ".", "old", ".", "FLAC">>)}
    /\ drtFile = {File(<<"cut", ".", "XML">>)}
    /\ ENABLED OnDrop(<<File(<<"wav">>), File(<<"song", ".", "wav">>)>>)

\* C28: isPolling is true exactly while a polling interval is active, and
\* while it is true the upload-and-process action is disabled, so that no
\* second job is submitted (the process button acts) while an interval is
\* active.
C28_PollingFlag ==
    /\ [](isPolling <=> intervals # <<>>)
    /\ [](isPolling => ~canStartProcessing)
    /\ [][UploadStart /\ upload_pc' = "upload" => intervals = <<>>]_vars

\* No interval polls job j, and the polling flag is off if j is the observed job.
Stopped(j) ==
    /\ \A i \in 1..Len(intervals) : intervals[i] # j
    /\ effect # j
    /\ currentJob # {} /\ Parsed(currentJob).job_id = j => ~isPolling

\* C29: under fair scheduling (a pending effect is flushed, an active interval
\* keeps ticking, status requests are answered and answers get back), if from
\* some point on the backend reports 'completed' or 'failed' for a job, then
\* from some point on no interval polls that job, so no status fetch for it is
\* started any more, and isPolling is false while it is the observed job.
C29_PollingStops ==
    \A j \in Jobs : <>[]Terminal(srv[j]) => <>[]Stopped(j)

\* Job 1 was polled, the backend reported it terminal, a tick's fetch returned
\* that, and the effect cleanup has cleared the interval.
C29_Witness ==
    /\ mounted /\ ~dirty
    /\ polled[1] /\ Terminal(srv[1]) /\ finished[1] > 0
    /\ currentJob # {} /\ Parsed(currentJob).job_id = 1
    /\ Stopped(1) /\ intervals = <<>>
    /\ InFlight = 0

-----------------------------------------------------------------------------
(* Further claims about the api client and the session *)

\* Between tasks (no await continuation queued) refreshPromise refers to a
\* refresh exactly when one is unsettled, and to that one.
C25_SetWhileUnsettled ==
    mq = <<>> =>
        /\ refreshPromise # 0 <=> Pending # {}
        /\ refreshPromise # 0 => refreshPromise \in Pending

\* A 401 handled with no refresh unsettled starts a refresh of its own; an
\* awaiter that resumes clears no reference but the one to the refresh it
\* awaited.
C25_Step ==
    /\ \A c \in Calls :
          call[c].st = "flight" /\ call'[c].st \in {"await", "resume"} /\ Pending = {} =>
              /\ promise[c].st = "none"
              /\ call'[c].p = c
              /\ refreshPromise' = c
    /\ mq # <<>> => refreshPromise \in {0, call[Head(mq)].p}

\* C25: refreshPromise is set exactly while the refresh it refers to is
\* unsettled: it is non-null while that refresh's network call is in flight and
\* cleared once the refresh has settled (by the awaiters, as they resume in the
\* same task), so that a 401 handled after the settlement starts a new
\* refresh; it is never cleared by a caller of an earlier, already settled
\* refresh.
C25_RefreshPromiseLifetime == []C25_SetWhileUnsettled /\ [][C25_Step]_vars

\* A second refresh is in flight after a first one has settled and its
\* awaiters have resumed.
C25_Witness ==
    /\ mq = <<>>
    /\ \E p, q \in Calls :
          /\ p # q
          /\ promise[p].st \in {"token", "error"}
          /\ promise[q].st = "pending"
          /\ refreshPromise = q

\* C26: the request hook of the api client and the session restore on load
\* give the same verdict on every stored expires_at (absent, unparseable as a
\* date, earlier than, equal to or later than now), and neither accepts a
\* credential whose expiry is not a time strictly after now: a request leaves
\* with the stored access token iff the restore check accepts the record, and
\* only if the record's expires_at is a time after now.
C26_ChecksAgree ==
    [][\A c \in Calls :
          SendCall(c) /\ lsTokens # {} /\ Parsed(lsTokens).access_token # Undefined =>
              /\ call'[c].hdr # Undefined <=> NotExpiredOnLoad(Parsed(lsTokens))
              /\ call'[c].hdr # Undefined =>
                    /\ Parsed(lsTokens).expires_at.kind = "ms"
                    /\ Parsed(lsTokens).expires_at.ms > now]_vars

\* C27: whenever the AuthProvider reports isAuthenticated, the tokens it holds
\* in memory equal the persisted credential record, also after the api client
\* has refreshed or cleared the persisted record on a 401.
C27_MemoryEqualsStored == isAuthenticated => tokens = lsTokens

\* C30: a login that fails, at the demo-token request or at the verify
\* request, modifies neither the in-memory tokens and user nor the persisted
\* credential and identity records at any of its steps (so login stores no
\* credential without an identity); the error message is set and isLoading is
\* false again.
C30_FailedLoginFrame ==
    [][/\ LoginStart \/ (login_pc = "token" /\ login_pc' = "verify") \/ LoginFail =>
             UNCHANGED <<tokens, user, lsTokens, lsUser>>
       /\ LoginFail => error' /\ ~isLoading' /\ newTokens' = {}]_vars

\* A login has failed after the auth service had issued a token to it or to a
\* login before: the error is set and nothing is stored.
C30_Witness ==
    /\ error /\ ~isLoading /\ login_pc = "idle"
    /\ nextTok > 1
    /\ tokens = {} /\ user = {} /\ lsTokens = {} /\ lsUser = {}

=============================================================================
